---- MODULE Spec2Model ----
(***************************************************************************)
(* Model of plugins/vars/aws_vars.py: the vars plugin that builds the      *)
(* hierarchy of parameter-store paths of a host, queries the store for     *)
(* each path and merges the JSON dictionaries it finds under host vars.    *)
(*                                                                         *)
(* Strings are sequences of symbols.  A symbol is one character ("a", ".", *)
(* "_", "{", "/") or one literal word of the source that no operation of   *)
(* the plugin looks inside ("aws_vars", "ansible_vars", "global").         *)
(* A placeholder of a path template is the symbol "{name}".                *)
(***************************************************************************)
EXTENDS Integers, Sequences, FiniteSets, TLC

(***************************************************************************)
(* Bounds of the model.                                                    *)
(***************************************************************************)
MaxFqdnLen == 2     \* characters of a raw fqdn
MaxPaths   == 2     \* paths in the list given to _get_ssm_parameters
MaxPages   == 1     \* pages the store returns for one path
MaxParams  == 3     \* parameters the store returns during one call
MaxTokenRequests == 2   \* token requests of a plugin before its last get_vars

(***************************************************************************)
(* Strings.                                                                *)
(***************************************************************************)
RECURSIVE StrsUpTo(_, _)
StrsUpTo(chars, n) ==
    IF n = 0 THEN {<<>>}
    ELSE LET shorter == StrsUpTo(chars, n - 1)
         IN  shorter \cup {Append(s, c) : s \in shorter, c \in chars}

\* str.replace('.', '_', 1): only the first occurrence is replaced
RECURSIVE ReplaceFirstDot(_)
ReplaceFirstDot(s) ==
    IF s = <<>> THEN <<>>
    ELSE IF Head(s) = "." THEN <<"_">> \o Tail(s)
    ELSE <<Head(s)>> \o ReplaceFirstDot(Tail(s))

\* str.replace('.', '_'): every occurrence is replaced
RECURSIVE ReplaceDots(_)
ReplaceDots(s) ==
    IF s = <<>> THEN <<>>
    ELSE <<IF Head(s) = "." THEN "_" ELSE Head(s)>> \o ReplaceDots(Tail(s))

\* str.split('/'): the segments between the separators, empty ones included
RECURSIVE SplitSlash(_, _)
SplitSlash(s, cur) ==
    IF s = <<>> THEN <<cur>>
    ELSE IF Head(s) = "/" THEN <<cur>> \o SplitSlash(Tail(s), <<>>)
    ELSE SplitSlash(Tail(s), Append(cur, Head(s)))

\* '{' in component
HasBrace(seg) == \E n \in 1..Len(seg) : seg[n] = "{"

\* dict.get(key, default)
DictGet(d, key, default) == IF key \in DOMAIN d THEN d[key] ELSE default

(***************************************************************************)
(* Constants of the plugin.                                                *)
(***************************************************************************)
BASE_PATH == <<"/", "aws_vars">>

\* the eight templates, in the iteration order of the dict: BASE, GLOBAL,
\* ENVIRONMENT
PATH_PATTERNS ==
    << <<"{BASE_PATH}", "/", "ansible_vars">>,
       <<"{BASE_PATH}", "/", "{role}", "/", "ansible_vars">>,
       <<"{BASE_PATH}", "/", "{role}", "/", "global", "/", "{cluster}", "/",
         "ansible_vars">>,
       <<"{BASE_PATH}", "/", "{role}", "/", "global", "/", "{cluster}", "/",
         "{node_type}", "/", "ansible_vars">>,
       <<"{BASE_PATH}", "/", "{role}", "/", "{environment}", "/",
         "ansible_vars">>,
       <<"{BASE_PATH}", "/", "{role}", "/", "{environment}", "/", "{cluster}",
         "/", "ansible_vars">>,
       <<"{BASE_PATH}", "/", "{role}", "/", "{environment}", "/", "{cluster}",
         "/", "{node_type}", "/", "ansible_vars">>,
       <<"{BASE_PATH}", "/", "{role}", "/", "{environment}", "/", "{cluster}",
         "/", "{fqdn}", "/", "ansible_vars">> >>

NoComponents ==
    [role |-> <<>>, environment |-> <<>>, cluster |-> <<>>,
     node_type |-> <<>>, fqdn |-> <<>>]

\* PathComponents.from_tags_and_vars
from_tags_and_vars(t, hv) ==
    [role        |-> DictGet(t, "Role", <<>>),
     environment |-> DictGet(t, "Environment", <<>>),
     cluster     |-> DictGet(t, "Cluster", <<>>),
     node_type   |-> DictGet(hv, "node_type", <<>>),
     fqdn        |-> ReplaceDots(DictGet(hv, "fqdn", <<>>))]

\* pattern['path'].format(BASE_PATH=..., role=..., ...): every placeholder
\* is given a value, so format never raises KeyError
RECURSIVE Format(_, _)
Format(tpl, c) ==
    IF tpl = <<>> THEN <<>>
    ELSE LET h == Head(tpl)
             v == CASE h = "{BASE_PATH}"   -> BASE_PATH
                    [] h = "{role}"        -> c.role
                    [] h = "{environment}" -> c.environment
                    [] h = "{cluster}"     -> c.cluster
                    [] h = "{node_type}"   -> c.node_type
                    [] h = "{fqdn}"        -> c.fqdn
                    [] OTHER               -> <<h>>
         IN  v \o Format(Tail(tpl), c)

\* the test of _add_path_if_valid
PathIsValid(path) ==
    LET segs == SplitSlash(path, <<>>)
    IN  \A n \in 1..Len(segs) : (~HasBrace(segs[n])) => segs[n] # <<>>

\* VarsModule._add_path_if_valid
add_path_if_valid(ps, path) ==
    IF PathIsValid(path) THEN Append(ps, path) ELSE ps


(***************************************************************************)
(* Dictionaries are functions from a finite set of keys.                   *)
(***************************************************************************)
EmptyDict == [k \in {} |-> 0]

\* d[key] = value
DictPut(d, key, value) ==
    [k \in (DOMAIN d) \cup {key} |-> IF k = key THEN value ELSE d[k]]

\* every dictionary with some of the keys of V, each key with a value of V[key]
DictsOver(V) ==
    UNION { {d \in [S -> UNION {V[k] : k \in S}] :
                \A k \in S : d[k] \in V[k]} : S \in SUBSET DOMAIN V }

(***************************************************************************)
(* Inputs of a direct call of _construct_paths(tags, hostvars).            *)
(***************************************************************************)
FqdnChars == {"a", ".", "_"}

TagKeys == {"Role", "Environment", "Cluster"}

TagValues ==
    [Role        |-> {<<>>, <<"r">>, <<"{">>},
     Environment |-> {<<>>, <<"e">>},
     Cluster     |-> {<<>>, <<"c">>}]

PathVarValues ==
    [node_type |-> {<<>>, <<"n">>},
     fqdn      |-> StrsUpTo(FqdnChars, MaxFqdnLen)]

TagDicts == DictsOver(TagValues)

PathHostVars == DictsOver(PathVarValues)

(***************************************************************************)
(* The parameter store.  A parameter is a Name and a Value; the Value is   *)
(* JSON text: malformed text, an array, a scalar, or an object, given by   *)
(* its members in the order of the text.                                   *)
(***************************************************************************)
Keys == {"k1", "k2"}

\* the name host vars may hold has one value in the store, the other two
Pairs == {<<"k1", 1>>, <<"k2", 1>>, <<"k2", 2>>}

\* the members of an object: its names are distinct
Members == {<<>>} \cup {<<m>> : m \in Pairs}
              \cup {ms \in {<<m, n>> : m \in Pairs, n \in Pairs} :
                       ms[1][1] # ms[2][1]}

JsonTexts ==
    {[kind |-> k, members |-> <<>>] : k \in {"invalid", "array", "scalar"}}
    \cup {[kind |-> "object", members |-> ms] : ms \in Members}

ParamNames == {<<"/", "aws_vars", "/", "ansible_vars">>,
               <<"/", "aws_vars", "/", "other">>}

Params == [Name : ParamNames, Value : JsonTexts]

\* dict(pairs): a repeated key keeps its first position and its last value
RECURSIVE DictItems(_, _)
DictItems(members, items) ==
    IF members = <<>> THEN items
    ELSE LET m == Head(members)
             at == {n \in 1..Len(items) : items[n][1] = m[1]}
         IN  DictItems(Tail(members),
                       IF at = {} THEN Append(items, m)
                       ELSE [n \in 1..Len(items) |->
                               IF n \in at THEN m ELSE items[n]])

\* json.loads(text): the exception it raises, the type of the value, and
\* the items of a dict in iteration order
json_loads(text) ==
    CASE text.kind = "invalid" ->
            [exc |-> "JSONDecodeError", isdict |-> FALSE, items |-> <<>>]
      [] text.kind = "object" ->
            [exc |-> "none", isdict |-> TRUE,
             items |-> DictItems(text.members, <<>>)]
      [] OTHER ->
            [exc |-> "none", isdict |-> FALSE, items |-> <<>>]

\* name.endswith('/ansible_vars')
EndsWithAnsibleVars(name) ==
    /\ Len(name) >= 2
    /\ name[Len(name) - 1] = "/"
    /\ name[Len(name)] = "ansible_vars"

\* f"SSM:{path}:{var_name}"
ConflictRecord(path, var_name) == <<"SSM", ":">> \o path \o <<":", var_name>>

\* the loop over the items without the "continue" after a conflict
RECURSIVE MergeItemsNoContinue(_, _, _, _)
MergeItemsNoContinue(items, path, hv, st) ==
    IF items = <<>> THEN st
    ELSE LET var_name  == Head(items)[1]
             var_value == Head(items)[2]
             noted == IF var_name \in DOMAIN hv
                      THEN [st EXCEPT !.conflicts =
                               Append(@, <<"SSM", ":">> \o path \o <<":", var_name>>)]
                      ELSE st
         IN  MergeItemsNoContinue(Tail(items), path, hv,
                [noted EXCEPT !.values = DictPut(@, var_name, var_value)])

\* the loop over the items with values.setdefault(var_name, var_value)
RECURSIVE MergeItemsFirstWins(_, _, _, _)
MergeItemsFirstWins(items, path, hv, st) ==
    IF items = <<>> THEN st
    ELSE LET var_name  == Head(items)[1]
             var_value == Head(items)[2]
         IN  MergeItemsFirstWins(Tail(items), path, hv,
                IF var_name \in DOMAIN hv
                THEN [st EXCEPT !.conflicts =
                         Append(@, <<"SSM", ":">> \o path \o <<":", var_name>>)]
                ELSE IF var_name \in DOMAIN st.values THEN st
                ELSE [st EXCEPT !.values = DictPut(@, var_name, var_value)])

\* for var_name, var_value in param_values.items(): ...
RECURSIVE MergeItems(_, _, _, _)
MergeItems(items, path, hv, st) ==
    IF items = <<>> THEN st
    ELSE LET var_name  == Head(items)[1]
             var_value == Head(items)[2]
         IN  MergeItems(Tail(items), path, hv,
                IF var_name \in DOMAIN hv
                THEN [st EXCEPT !.conflicts =
                         Append(@, ConflictRecord(path, var_name))]
                ELSE [st EXCEPT !.values = DictPut(@, var_name, var_value)])

\* the body of the loop without "except json.JSONDecodeError"
process_param_no_except(param, path, hv, st) ==
    IF ~EndsWithAnsibleVars(param.Name) THEN st
    ELSE LET parsed == json_loads(param.Value)
         IN  IF parsed.exc # "none" THEN [st EXCEPT !.exc = parsed.exc]
             ELSE IF ~parsed.isdict THEN st
             ELSE MergeItems(parsed.items, path, hv, st)

\* the body of "for param in page['Parameters']" for one parameter:
\* exc is the exception that leaves the inner try statement
process_param(param, path, hv, st) ==
    IF ~EndsWithAnsibleVars(param.Name) THEN st
    ELSE LET parsed == json_loads(param.Value)
         IN  IF parsed.exc = "JSONDecodeError" THEN st
             ELSE IF parsed.exc # "none" THEN [st EXCEPT !.exc = parsed.exc]
             ELSE IF ~parsed.isdict THEN st
             ELSE MergeItems(parsed.items, path, hv, st)

\* "except Exception as err: ...; return values, conflicts"
return_on_path_error(i) == [pc |-> "ssm_done", idx |-> i]

\* "except Exception as err: ...; continue" of the loop over paths
on_path_error(i) == [pc |-> "ssm_path", idx |-> i + 1]

(***************************************************************************)
(* Inputs of a direct call of _get_ssm_parameters(paths, hostvars).        *)
(***************************************************************************)
SsmPathPool ==
    << <<"/", "aws_vars", "/", "ansible_vars">>,
       <<"/", "aws_vars", "/", "r", "/", "ansible_vars">>,
       <<"/", "aws_vars", "/", "r", "/", "global", "/", "c", "/", "ansible_vars">>,
       <<"/", "aws_vars", "/", "r", "/", "e", "/", "ansible_vars">>,
       <<"/", "aws_vars", "/", "r", "/", "e", "/", "c", "/", "ansible_vars">> >>

Reverse(q) == [n \in 1..Len(q) |-> q[Len(q) + 1 - n]]

\* the first paths of the pool, generic to specific and specific to generic
SsmPathLists ==
    {SubSeq(SsmPathPool, 1, n) : n \in 0..MaxPaths}
    \cup {Reverse(SubSeq(SsmPathPool, 1, n)) : n \in 0..MaxPaths}

\* the name host vars may hold, with its value there
HostValue == [k1 |-> {0}]

SsmHostVars == DictsOver(HostValue)

\* what the store said, seen from outside the plugin
Malformed(param) ==
    /\ EndsWithAnsibleVars(param.Name)
    /\ param.Value.kind \in {"invalid", "array", "scalar"}

WellFormed(param) ==
    /\ EndsWithAnsibleVars(param.Name)
    /\ param.Value.kind = "object"

KindOf(param) ==
    IF Malformed(param) THEN "malformed"
    ELSE IF WellFormed(param) THEN "wellformed"
    ELSE "other"

\* the members a well-formed parameter offers to the merge
Offered(param) == IF WellFormed(param) THEN param.Value.members ELSE <<>>

\* the offers of names that host vars hold, as <<path index, name>>
AttemptsOf(param, i, hv) ==
    LET sel == SelectSeq(Offered(param), LAMBDA m : m[1] \in DOMAIN hv)
    IN  [n \in 1..Len(sel) |-> <<i, sel[n][1]>>]

\* the offers of names that host vars do not hold, as <<path index, name,
\* value>>
DefsOf(param, i, hv) ==
    {<<i, Offered(param)[n][1], Offered(param)[n][2]>> :
        n \in {m \in 1..Len(Offered(param)) :
                  Offered(param)[m][1] \notin DOMAIN hv}}

(***************************************************************************)
(* get_vars, _get_host_tags and the instance metadata service.             *)
(***************************************************************************)
\* entities that is not a Host
NoHost == [isHost |-> FALSE, name |-> ""]

HostNames == {"localhost", "127.0.0.1", "web1"}

\* the value None of Optional[Dict[str, str]], and a dictionary of tags
NoneTags == [none |-> TRUE, d |-> EmptyDict]
SomeTags(d) == [none |-> FALSE, d |-> d]

\* required_tags of _get_host_tags
required_tags == <<"Environment", "Role", "Cluster">>

\* the tags a host can hold in its variables
HostTagValue ==
    [Role |-> {<<"r">>}, Environment |-> {<<"e">>}, Cluster |-> {<<"c">>}]

\* host.get_vars() of the hosts given to get_vars
GetVarsHostVars ==
    {t @@ f @@ v :
        t \in DictsOver(HostTagValue),
        f \in {EmptyDict, [skip_aws_vars |-> TRUE], [skip_aws_vars |-> FALSE]},
        v \in {EmptyDict, [node_type |-> <<"n">>, fqdn |-> <<"a", ".", "a">>]}}

\* the tokens the metadata service hands out
TokenTexts == {"t1", "t2"}

\* _get_imdsv2_token without the check of the cached token
NeverHasToken(t) == FALSE

\* if self.token: (None is not a token)
HasToken(t) == t # "None"

\* the tag keys of the instance, as the lines of the listing
InstanceTagLists ==
    {SelectSeq(<<"Cluster", "Environment", "Role">>, LAMBDA k : k \in S) :
        S \in SUBSET TagKeys}

\* ''.split('\n') is [''], every other text has its lines
SplitLines(lines) == IF lines = <<>> THEN <<"">> ELSE lines

\* the value the metadata service holds for a tag key
InstanceTagValue(k) == <<"i", k>>

\* get_vars without the check of the skip flag
SkipIgnored(hv) == FALSE

\* if hostvars.get('skip_aws_vars', False)
SkipRequested(hv) == DictGet(hv, "skip_aws_vars", FALSE)

\* the first loop of _get_host_tags: the tags found in hostvars
TagsInHostVars(hv) ==
    [k \in {required_tags[n] : n \in 1..Len(required_tags)} \cap DOMAIN hv
        |-> hv[k]]

\* the first loop of _get_host_tags: the tags not found, in order
MissingTags(hv) == SelectSeq(required_tags, LAMBDA k : k \notin DOMAIN hv)

\* host.name == 'localhost' or host.name == '127.0.0.1'
IsLocal(h) == h.name = "localhost" \/ h.name = "127.0.0.1"

\* every tag of the instance is taken, the tags of hostvars are overwritten
FillTagsOverwriting(t, missing, itags) ==
    [k \in DOMAIN t \cup ({missing[n] : n \in 1..Len(missing)} \cap DOMAIN itags)
        |-> IF k \in DOMAIN itags THEN itags[k] ELSE t[k]]

\* for tag in missing_tags[:]: if tag in instance_tags: tags[tag] = ...
FillTags(t, missing, itags) ==
    [k \in DOMAIN t \cup ({missing[n] : n \in 1..Len(missing)} \cap DOMAIN itags)
        |-> IF k \in DOMAIN t THEN t[k] ELSE itags[k]]

\* ... missing_tags.remove(tag)
StillMissing(missing, itags) ==
    SelectSeq(missing, LAMBDA k : k \notin DOMAIN itags)

\* the tags fetched so far are returned when a request for a value raises
partial_on_tag_request_error(partial) == partial

\* the result of _get_instance_tags when a request for a tag value raises
on_tag_request_error(partial) == NoneTags

(***************************************************************************)
(* State.                                                                  *)
(***************************************************************************)
VARIABLES
    pc,          \* control location of the plugin
    caller,      \* the entry point that was called
    hostvars,    \* host.get_vars(), or the hostvars argument
    tags,        \* the tags argument / the result of _get_host_tags
    components,  \* PathComponents of _construct_paths
    paths,       \* the list of paths under construction / being queried
    pat,         \* index of the next pattern of PATH_PATTERNS
    idx,         \* index in paths of the path of the loop
    npages,      \* pages the paginator has returned for this path
    pageLeft,    \* parameters of the page still to be processed
    values,      \* the merged map
    conflicts,   \* the conflict records
    queried,     \* the paths the store was asked for, in order
    failed,      \* indexes of the paths whose query raised
    attempted,   \* offers of names held by host vars: <<path index, name>>
    defs,        \* offers of other names: <<path index, name, value>>
    nparams,     \* parameters the store has returned during the call
    lastKind,    \* what the last parameter the store returned was
    sawMalformed, \* the store has returned a malformed parameter
    host,        \* the entities argument of get_vars
    ret,         \* the mapping get_vars returns
    token,       \* self.token
    tagKeys,     \* tags_response.text.split('\n')
    tk,          \* index of the next key of tagKeys
    instance_tags, \* the tags of _get_instance_tags, or None
    missing_tags,  \* missing_tags of _get_host_tags
    remote,      \* the metadata requests sent during the call
    metaFailure, \* the failures the metadata service has answered with
    tagNotOk,    \* the tag keys whose value request was answered non-200
    tokenRequests,   \* token requests the plugin has sent since it was made
    valuesBefore,    \* the merged map when the query of the path began
    conflictsBefore  \* the conflict records when the query of the path began

pathVars == <<tags, components, paths, pat>>

ssmVars == <<idx, npages, pageLeft, values, conflicts, queried, failed>>

storeVars == <<attempted, defs, nparams, lastKind, sawMalformed>>

metaVars == <<token, tagKeys, tk, instance_tags, missing_tags, remote,
              metaFailure, tagNotOk>>

gvVars == <<host, ret>>

beforeVars == <<valuesBefore, conflictsBefore>>

lifeVars == <<tokenRequests>>

vars == <<pc, caller, hostvars, pathVars, ssmVars, storeVars, metaVars, gvVars,
          beforeVars, lifeVars>>

Init ==
    /\ pc = "idle"
    /\ caller = "none"
    /\ hostvars = EmptyDict
    /\ tags = EmptyDict
    /\ components = NoComponents
    /\ paths = <<>>
    /\ pat = 1
    /\ idx = 1
    /\ npages = 0
    /\ pageLeft = 0
    /\ values = EmptyDict
    /\ conflicts = <<>>
    /\ queried = <<>>
    /\ failed = {}
    /\ attempted = <<>>
    /\ defs = {}
    /\ nparams = 0
    /\ lastKind = "none"
    /\ sawMalformed = FALSE
    /\ host = NoHost
    /\ ret = EmptyDict
    /\ token = "None"
    /\ tagKeys = <<>>
    /\ tk = 1
    /\ instance_tags = NoneTags
    /\ missing_tags = <<>>
    /\ remote = {}
    /\ metaFailure = {}
    /\ tagNotOk = {}
    /\ valuesBefore = EmptyDict
    /\ conflictsBefore = <<>>
    /\ tokenRequests = 0

(***************************************************************************)
(* _construct_paths                                                        *)
(***************************************************************************)
\* a test calls _construct_paths(tags, hostvars) on a new plugin
CallConstructPaths ==
    /\ pc = "idle"
    /\ token = "None"
    /\ tokenRequests = 0
    /\ \E t \in TagDicts, hv \in PathHostVars :
          /\ tags' = t
          /\ hostvars' = hv
    /\ caller' = "_construct_paths"
    /\ pc' = "cp_components"
    /\ UNCHANGED <<components, paths, pat, ssmVars, storeVars>>
    /\ UNCHANGED <<metaVars, gvVars>>
    /\ UNCHANGED beforeVars
    /\ UNCHANGED lifeVars

\* paths = []; components = PathComponents.from_tags_and_vars(tags, hostvars)
ConstructComponents ==
    /\ pc = "cp_components"
    /\ components' = from_tags_and_vars(tags, hostvars)
    /\ paths' = <<>>
    /\ pat' = 1
    /\ pc' = "cp_patterns"
    /\ UNCHANGED <<caller, hostvars, tags, ssmVars, storeVars>>
    /\ UNCHANGED <<metaVars, gvVars>>
    /\ UNCHANGED beforeVars
    /\ UNCHANGED lifeVars

\* one iteration of the loops over PATH_PATTERNS
FormatPattern ==
    /\ pc = "cp_patterns"
    /\ pat <= Len(PATH_PATTERNS)
    /\ paths' = add_path_if_valid(paths, Format(PATH_PATTERNS[pat], components))
    /\ pat' = pat + 1
    /\ UNCHANGED <<pc, caller, hostvars, tags, components, ssmVars, storeVars>>
    /\ UNCHANGED <<metaVars, gvVars>>
    /\ UNCHANGED beforeVars
    /\ UNCHANGED lifeVars

\* return paths; in get_vars: "if not paths: return ret", else the call
\* of _get_ssm_parameters(paths, hostvars)
ConstructReturn ==
    /\ pc = "cp_patterns"
    /\ pat > Len(PATH_PATTERNS)
    /\ IF caller # "get_vars"
       THEN /\ pc' = "cp_done"
            /\ UNCHANGED <<ret, values, conflicts, idx>>
       ELSE IF paths = <<>>
       THEN /\ ret' = EmptyDict
            /\ pc' = "gv_done"
            /\ UNCHANGED <<values, conflicts, idx>>
       ELSE /\ values' = EmptyDict
            /\ conflicts' = <<>>
            /\ idx' = 1
            /\ pc' = "ssm_path"
            /\ UNCHANGED ret
    /\ UNCHANGED <<caller, hostvars, pathVars, npages, pageLeft, queried,
                   failed, storeVars, metaVars, host>>
    /\ UNCHANGED beforeVars
    /\ UNCHANGED lifeVars

(***************************************************************************)
(* _get_ssm_parameters                                                     *)
(***************************************************************************)
\* a test calls _get_ssm_parameters(paths, hostvars) on a new plugin
CallGetSsmParameters ==
    /\ pc = "idle"
    /\ token = "None"
    /\ tokenRequests = 0
    /\ \E ps \in SsmPathLists, hv \in SsmHostVars :
          /\ paths' = ps
          /\ hostvars' = hv
    /\ caller' = "_get_ssm_parameters"
    /\ values' = EmptyDict
    /\ conflicts' = <<>>
    /\ idx' = 1
    /\ pc' = "ssm_path"
    /\ UNCHANGED <<tags, components, pat, npages, pageLeft, queried, failed,
                   storeVars>>
    /\ UNCHANGED <<metaVars, gvVars>>
    /\ UNCHANGED beforeVars
    /\ UNCHANGED lifeVars

\* for path in paths: paginator = ...; paginator.paginate(Path=path, ...)
SsmNextPath ==
    /\ pc = "ssm_path"
    /\ idx <= Len(paths)
    /\ queried' = Append(queried, paths[idx])
    /\ npages' = 0
    /\ valuesBefore' = values
    /\ conflictsBefore' = conflicts
    /\ pc' = "ssm_page"
    /\ UNCHANGED <<caller, hostvars, pathVars, idx, pageLeft, values,
                   conflicts, failed, storeVars>>
    /\ UNCHANGED <<metaVars, gvVars>>
    /\ UNCHANGED lifeVars

\* for page in ...: the store returns one more page
SsmFetchPage ==
    /\ pc = "ssm_page"
    /\ npages < MaxPages
    /\ \E n \in 0..(MaxParams - nparams) : pageLeft' = n
    /\ npages' = npages + 1
    /\ pc' = "ssm_param"
    /\ UNCHANGED <<caller, hostvars, pathVars, idx, values, conflicts,
                   queried, failed, storeVars>>
    /\ UNCHANGED <<metaVars, gvVars>>
    /\ UNCHANGED beforeVars
    /\ UNCHANGED lifeVars

\* the store has no more pages for the path
SsmPagesEnd ==
    /\ pc = "ssm_page"
    /\ idx' = idx + 1
    /\ pc' = "ssm_path"
    /\ UNCHANGED <<caller, hostvars, pathVars, npages, pageLeft, values,
                   conflicts, queried, failed, storeVars>>
    /\ UNCHANGED <<metaVars, gvVars>>
    /\ UNCHANGED beforeVars
    /\ UNCHANGED lifeVars

\* the query raises: except Exception
SsmQueryError ==
    /\ pc = "ssm_page"
    /\ failed' = failed \cup {idx}
    /\ idx' = on_path_error(idx).idx
    /\ pc' = on_path_error(idx).pc
    /\ UNCHANGED <<caller, hostvars, pathVars, npages, pageLeft, values,
                   conflicts, queried, storeVars>>
    /\ UNCHANGED <<metaVars, gvVars>>
    /\ UNCHANGED beforeVars
    /\ UNCHANGED lifeVars

\* for param in page['Parameters']: one parameter of the page
SsmProcessParam ==
    /\ pc = "ssm_param"
    /\ pageLeft > 0
    /\ \E param \in Params :
          LET st == process_param(param, paths[idx], hostvars,
                       [values |-> values, conflicts |-> conflicts,
                        exc |-> "none"])
          IN  /\ values' = st.values
              /\ conflicts' = st.conflicts
              /\ IF st.exc = "none"
                 THEN /\ pageLeft' = pageLeft - 1
                      /\ UNCHANGED <<pc, idx, failed>>
                 ELSE /\ pageLeft' = 0
                      /\ failed' = failed \cup {idx}
                      /\ idx' = on_path_error(idx).idx
                      /\ pc' = on_path_error(idx).pc
              /\ attempted' = attempted \o AttemptsOf(param, idx, hostvars)
              /\ defs' = defs \cup DefsOf(param, idx, hostvars)
              /\ nparams' = nparams + 1
              /\ lastKind' = KindOf(param)
              /\ sawMalformed' = (sawMalformed \/ Malformed(param))
    /\ UNCHANGED <<caller, hostvars, pathVars, npages, queried>>
    /\ UNCHANGED <<metaVars, gvVars>>
    /\ UNCHANGED beforeVars
    /\ UNCHANGED lifeVars

\* the page is exhausted
SsmPageDone ==
    /\ pc = "ssm_param"
    /\ pageLeft = 0
    /\ pc' = "ssm_page"
    /\ UNCHANGED <<caller, hostvars, pathVars, ssmVars, storeVars>>
    /\ UNCHANGED <<metaVars, gvVars>>
    /\ UNCHANGED beforeVars
    /\ UNCHANGED lifeVars

\* return values, conflicts; in get_vars: ret.update(ssm_values), the
\* warning about the conflicts, return ret
SsmReturn ==
    /\ pc = "ssm_path"
    /\ idx > Len(paths)
    /\ IF caller = "get_vars"
       THEN /\ ret' = values
            /\ pc' = "gv_done"
       ELSE /\ pc' = "ssm_done"
            /\ UNCHANGED ret
    /\ UNCHANGED <<caller, hostvars, pathVars, ssmVars, storeVars, metaVars,
                   host>>
    /\ UNCHANGED beforeVars
    /\ UNCHANGED lifeVars

(***************************************************************************)
(* get_vars                                                                *)
(***************************************************************************)
\* the inventory calls get_vars(loader, path, entities)
CallGetVars ==
    /\ pc = "idle"
    /\ HasToken(token) \/ tokenRequests < MaxTokenRequests
    /\ \/ /\ host' = NoHost
          /\ hostvars' = EmptyDict
       \/ \E n \in HostNames, hv \in GetVarsHostVars :
             /\ host' = [isHost |-> TRUE, name |-> n]
             /\ hostvars' = hv
    /\ caller' = "get_vars"
    /\ pc' = "gv_entry"
    /\ UNCHANGED <<pathVars, ssmVars, storeVars, metaVars, ret>>
    /\ UNCHANGED beforeVars
    /\ UNCHANGED lifeVars

\* if not isinstance(entities, Host): return {}
GetVarsNotHost ==
    /\ pc = "gv_entry"
    /\ ~host.isHost
    /\ ret' = EmptyDict
    /\ pc' = "gv_done"
    /\ UNCHANGED <<caller, hostvars, pathVars, ssmVars, storeVars, metaVars,
                   host>>
    /\ UNCHANGED beforeVars
    /\ UNCHANGED lifeVars

\* if hostvars.get('skip_aws_vars', False): return {}
GetVarsSkip ==
    /\ pc = "gv_entry"
    /\ host.isHost
    /\ SkipRequested(hostvars)
    /\ ret' = EmptyDict
    /\ pc' = "gv_done"
    /\ UNCHANGED <<caller, hostvars, pathVars, ssmVars, storeVars, metaVars,
                   host>>
    /\ UNCHANGED beforeVars
    /\ UNCHANGED lifeVars

\* tags = self._get_host_tags(host): the loop over required_tags
HostTagsScan ==
    /\ pc = "gv_entry"
    /\ host.isHost
    /\ ~SkipRequested(hostvars)
    /\ tags' = TagsInHostVars(hostvars)
    /\ missing_tags' = MissingTags(hostvars)
    /\ pc' = IF MissingTags(hostvars) # <<>> /\ IsLocal(host)
             THEN "it_token" ELSE "ht_return"
    /\ UNCHANGED <<caller, hostvars, components, paths, pat, ssmVars,
                   storeVars, token, tagKeys, tk, instance_tags, remote,
                   metaFailure, tagNotOk, gvVars>>
    /\ UNCHANGED beforeVars
    /\ UNCHANGED lifeVars

\* _get_imdsv2_token: if self.token: return self.token
TokenCached ==
    /\ pc = "it_token"
    /\ HasToken(token)
    /\ pc' = "it_list"
    /\ UNCHANGED <<caller, hostvars, pathVars, ssmVars, storeVars, metaVars,
                   gvVars>>
    /\ UNCHANGED beforeVars
    /\ UNCHANGED lifeVars

\* _get_imdsv2_token: the PUT succeeds, self.token = response.text
TokenFetched ==
    /\ pc = "it_token"
    /\ ~HasToken(token)
    /\ tokenRequests' = tokenRequests + 1
    /\ \E t \in TokenTexts : token' = t
    /\ remote' = remote \cup {"token"}
    /\ pc' = "it_list"
    /\ UNCHANGED <<caller, hostvars, pathVars, ssmVars, storeVars, tagKeys, tk,
                   instance_tags, missing_tags, metaFailure, tagNotOk, gvVars>>
    /\ UNCHANGED beforeVars

\* _get_imdsv2_token: the PUT raises or is answered with an error status;
\* _get_instance_tags: if not token: return None
TokenFailed ==
    /\ pc = "it_token"
    /\ ~HasToken(token)
    /\ tokenRequests' = tokenRequests + 1
    /\ remote' = remote \cup {"token"}
    /\ \E f \in {"token_status", "token_transport"} :
          metaFailure' = metaFailure \cup {f}
    /\ instance_tags' = NoneTags
    /\ pc' = "it_return"
    /\ UNCHANGED <<caller, hostvars, pathVars, ssmVars, storeVars, token,
                   tagKeys, tk, missing_tags, tagNotOk, gvVars>>
    /\ UNCHANGED beforeVars

\* the listing of the tag keys succeeds: tags = {}, the loop starts
TagsListed ==
    /\ pc = "it_list"
    /\ \E lines \in InstanceTagLists : tagKeys' = SplitLines(lines)
    /\ tk' = 1
    /\ instance_tags' = SomeTags(EmptyDict)
    /\ remote' = remote \cup {"tags"}
    /\ pc' = "it_tag"
    /\ UNCHANGED <<caller, hostvars, pathVars, ssmVars, storeVars, token,
                   missing_tags, metaFailure, tagNotOk, gvVars>>
    /\ UNCHANGED beforeVars
    /\ UNCHANGED lifeVars

\* the listing raises, or raise_for_status raises: return None
TagsListFailed ==
    /\ pc = "it_list"
    /\ \E f \in {"list_status", "list_transport"} :
          metaFailure' = metaFailure \cup {f}
    /\ instance_tags' = NoneTags
    /\ remote' = remote \cup {"tags"}
    /\ pc' = "it_return"
    /\ UNCHANGED <<caller, hostvars, pathVars, ssmVars, storeVars, token,
                   tagKeys, tk, missing_tags, tagNotOk, gvVars>>
    /\ UNCHANGED beforeVars
    /\ UNCHANGED lifeVars

\* the value of a tag is answered with status 200
TagFetched ==
    /\ pc = "it_tag"
    /\ tk <= Len(tagKeys)
    /\ instance_tags' = SomeTags(DictPut(instance_tags.d, tagKeys[tk],
                                         InstanceTagValue(tagKeys[tk])))
    /\ tk' = tk + 1
    /\ UNCHANGED <<pc, caller, hostvars, pathVars, ssmVars, storeVars, token,
                   tagKeys, missing_tags, remote, metaFailure, tagNotOk,
                   gvVars>>
    /\ UNCHANGED beforeVars
    /\ UNCHANGED lifeVars

\* the value of a tag is answered with another status: the tag is left out
TagNotOk ==
    /\ pc = "it_tag"
    /\ tk <= Len(tagKeys)
    /\ tagNotOk' = tagNotOk \cup {tagKeys[tk]}
    /\ metaFailure' = metaFailure \cup {"tag_status"}
    /\ tk' = tk + 1
    /\ UNCHANGED <<pc, caller, hostvars, pathVars, ssmVars, storeVars, token,
                   tagKeys, instance_tags, missing_tags, remote, gvVars>>
    /\ UNCHANGED beforeVars
    /\ UNCHANGED lifeVars

\* the request for the value of a tag raises: return None
TagRequestError ==
    /\ pc = "it_tag"
    /\ tk <= Len(tagKeys)
    /\ metaFailure' = metaFailure \cup {"tag_transport"}
    /\ instance_tags' = on_tag_request_error(instance_tags)
    /\ pc' = "it_return"
    /\ UNCHANGED <<caller, hostvars, pathVars, ssmVars, storeVars, token,
                   tagKeys, tk, missing_tags, remote, tagNotOk, gvVars>>
    /\ UNCHANGED beforeVars
    /\ UNCHANGED lifeVars

\* the loop over the tag keys is over: return tags
TagsReturn ==
    /\ pc = "it_tag"
    /\ tk > Len(tagKeys)
    /\ pc' = "it_return"
    /\ UNCHANGED <<caller, hostvars, pathVars, ssmVars, storeVars, metaVars,
                   gvVars>>
    /\ UNCHANGED beforeVars
    /\ UNCHANGED lifeVars

\* _get_host_tags: if instance_tags: the missing tags are taken from it
HostTagsFill ==
    /\ pc = "it_return"
    /\ IF ~instance_tags.none /\ instance_tags.d # EmptyDict
       THEN /\ tags' = FillTags(tags, missing_tags, instance_tags.d)
            /\ missing_tags' = StillMissing(missing_tags, instance_tags.d)
       ELSE UNCHANGED <<tags, missing_tags>>
    /\ tagKeys' = <<>>
    /\ tk' = 1
    /\ instance_tags' = NoneTags
    /\ metaFailure' = {}
    /\ tagNotOk' = {}
    /\ pc' = "ht_return"
    /\ UNCHANGED <<caller, hostvars, components, paths, pat, ssmVars,
                   storeVars, token, remote, gvVars>>
    /\ UNCHANGED beforeVars
    /\ UNCHANGED lifeVars

\* _get_host_tags: return tags; get_vars: self._construct_paths(tags, hostvars)
HostTagsReturn ==
    /\ pc = "ht_return"
    /\ pc' = "cp_components"
    /\ UNCHANGED <<caller, hostvars, pathVars, ssmVars, storeVars, metaVars,
                   gvVars>>
    /\ UNCHANGED beforeVars
    /\ UNCHANGED lifeVars

\* the caller takes the result; the locals of the call are gone
Return ==
    /\ pc \in {"cp_done", "ssm_done", "gv_done"}
    /\ pc' = "idle"
    /\ caller' = "none"
    /\ hostvars' = EmptyDict
    /\ tags' = EmptyDict
    /\ components' = NoComponents
    /\ paths' = <<>>
    /\ pat' = 1
    /\ idx' = 1
    /\ npages' = 0
    /\ pageLeft' = 0
    /\ values' = EmptyDict
    /\ conflicts' = <<>>
    /\ queried' = <<>>
    /\ failed' = {}
    /\ attempted' = <<>>
    /\ defs' = {}
    /\ nparams' = 0
    /\ lastKind' = "none"
    /\ sawMalformed' = FALSE
    /\ host' = NoHost
    /\ ret' = EmptyDict
    /\ tagKeys' = <<>>
    /\ tk' = 1
    /\ instance_tags' = NoneTags
    /\ missing_tags' = <<>>
    /\ remote' = {}
    /\ metaFailure' = {}
    /\ tagNotOk' = {}
    /\ valuesBefore' = EmptyDict
    /\ conflictsBefore' = <<>>
    /\ UNCHANGED token
    /\ UNCHANGED lifeVars

Next ==
    \/ CallConstructPaths
    \/ ConstructComponents
    \/ FormatPattern
    \/ ConstructReturn
    \/ CallGetSsmParameters
    \/ SsmNextPath
    \/ SsmFetchPage
    \/ SsmPagesEnd
    \/ SsmQueryError
    \/ SsmProcessParam
    \/ SsmPageDone
    \/ SsmReturn
    \/ CallGetVars
    \/ GetVarsNotHost
    \/ GetVarsSkip
    \/ HostTagsScan
    \/ TokenCached
    \/ TokenFetched
    \/ TokenFailed
    \/ TagsListed
    \/ TagsListFailed
    \/ TagFetched
    \/ TagNotOk
    \/ TagRequestError
    \/ TagsReturn
    \/ HostTagsFill
    \/ HostTagsReturn
    \/ Return

Spec == Init /\ [][Next]_vars

(***************************************************************************)
(* Properties of _construct_paths and PathComponents.                      *)
(***************************************************************************)
\* "/" + segment, for every segment
RECURSIVE JoinPath(_)
JoinPath(segs) ==
    IF segs = <<>> THEN <<>> ELSE <<"/">> \o Head(segs) \o JoinPath(Tail(segs))

AWS  == <<"aws_vars">>
VARS == <<"ansible_vars">>
GLOB == <<"global">>

\* the eight paths of the module docstring, generic to specific
DocumentedPaths(c) ==
    << JoinPath(<<AWS, VARS>>),
       JoinPath(<<AWS, c.role, VARS>>),
       JoinPath(<<AWS, c.role, GLOB, c.cluster, VARS>>),
       JoinPath(<<AWS, c.role, GLOB, c.cluster, c.node_type, VARS>>),
       JoinPath(<<AWS, c.role, c.environment, VARS>>),
       JoinPath(<<AWS, c.role, c.environment, c.cluster, VARS>>),
       JoinPath(<<AWS, c.role, c.environment, c.cluster, c.node_type, VARS>>),
       JoinPath(<<AWS, c.role, c.environment, c.cluster, c.fqdn, VARS>>) >>

\* the components each documented path refers to
DocumentedRefs ==
    << {}, {"role"}, {"role", "cluster"}, {"role", "cluster", "node_type"},
       {"role", "environment"}, {"role", "environment", "cluster"},
       {"role", "environment", "cluster", "node_type"},
       {"role", "environment", "cluster", "fqdn"} >>

\* the documented paths whose components are all non-empty, in order
RECURSIVE SurvivingPaths(_, _)
SurvivingPaths(c, n) ==
    IF n > Len(DocumentedRefs) THEN <<>>
    ELSE (IF \A f \in DocumentedRefs[n] : c[f] # <<>>
          THEN <<DocumentedPaths(c)[n]>> ELSE <<>>)
         \o SurvivingPaths(c, n + 1)

ConstructReturned == pc = "cp_done"

ComponentsBuilt == pc \in {"cp_patterns", "cp_done"}

AllComponentsSet ==
    \A f \in {"role", "environment", "cluster", "node_type", "fqdn"} :
        components[f] # <<>>

\* C1: for a host whose role, environment, cluster, node_type and fqdn are
\* all non-empty, _construct_paths returns exactly the 8 documented paths in
\* the documented order.
C1_EightPathsInOrder ==
    (ConstructReturned /\ AllComponentsSet) =>
        paths = DocumentedPaths(components)

\* C4: whatever components are empty, _construct_paths returns the documented
\* paths that refer to non-empty components only, in their relative order;
\* the base path is always returned, and a host with only Role set gets
\* exactly the base path and the role path.
C4_SurvivingPathsInOrder ==
    ConstructReturned =>
        /\ paths = SurvivingPaths(components, 1)
        /\ Len(paths) >= 1 /\ paths[1] = JoinPath(<<AWS, VARS>>)
        /\ (/\ components.role # <<>>
            /\ \A f \in {"environment", "cluster", "node_type", "fqdn"} :
                  components[f] = <<>>)
           => paths = <<JoinPath(<<AWS, VARS>>),
                        JoinPath(<<AWS, components.role, VARS>>)>>

RawFqdn == DictGet(hostvars, "fqdn", <<>>)

\* C9: the fqdn component is the raw fqdn with every "." replaced by "_": it
\* has no ".", it is defined for every raw fqdn, the empty and the absent one
\* included, and sanitizing it again leaves it unchanged.
C9_FqdnSanitized ==
    ComponentsBuilt =>
        /\ Len(components.fqdn) = Len(RawFqdn)
        /\ \A n \in 1..Len(RawFqdn) :
              components.fqdn[n] = (IF RawFqdn[n] = "." THEN "_" ELSE RawFqdn[n])
        /\ \A n \in 1..Len(components.fqdn) : components.fqdn[n] # "."
        /\ from_tags_and_vars(tags, DictPut(hostvars, "fqdn", components.fqdn)).fqdn
              = components.fqdn

\* a raw fqdn with two dots has been sanitized
C9_Witness ==
    /\ ComponentsBuilt
    /\ Cardinality({n \in 1..Len(RawFqdn) : RawFqdn[n] = "."}) >= 2
    /\ components.fqdn = <<"_", "_">>


(***************************************************************************)
(* Properties of _get_ssm_parameters.                                      *)
(***************************************************************************)
InSsm == pc \in {"ssm_path", "ssm_page", "ssm_param", "ssm_done"}

SsmReturned == pc = "ssm_done"

\* the record of the n-th offer of a name that host vars hold
AttemptRecord(n) ==
    <<"SSM", ":">> \o paths[attempted[n][1]] \o <<":", attempted[n][2]>>

\* what the last path that offers name k offers for it
LastVals(k) ==
    LET ds == {d \in defs : d[2] = k}
        last == CHOOSE i \in {d[1] : d \in ds} : \A d \in ds : d[1] <= i
    IN  {d[3] : d \in {e \in ds : e[1] = last}}

OfferedNames == {d[2] : d \in defs}

\* C2: no name that host vars hold is ever in the merged map, and the
\* conflict list holds one record "SSM:<queried path>:<name>" for each offer
\* of such a name by an entry of a path, in processing order.
C2_HostVarsWin ==
    InSsm =>
        /\ \A k \in DOMAIN hostvars : k \notin DOMAIN values
        /\ Len(conflicts) = Len(attempted)
        /\ \A n \in 1..Len(attempted) : conflicts[n] = AttemptRecord(n)

\* two paths have offered a name host vars hold, a third name was merged
C2_Witness ==
    /\ SsmReturned
    /\ Len(conflicts) >= 2
    /\ attempted[1][1] # attempted[Len(attempted)][1]
    /\ values # EmptyDict

AllOffersMerged ==
    /\ DOMAIN values = OfferedNames
    /\ \A k \in OfferedNames : values[k] \in LastVals(k)

\* C7: an entry whose value is not JSON, or is a JSON array or scalar, adds
\* no key and no conflict record and does not end the processing: the loop
\* goes on with the next entry of the same page, and the other entries and
\* paths are queried and merged as usual.
C7_MalformedSkipped ==
    /\ [][(nparams' = nparams + 1 /\ lastKind' = "malformed") =>
            /\ values' = values
            /\ conflicts' = conflicts
            /\ pc' = pc /\ idx' = idx /\ failed' = failed
            /\ pageLeft' = pageLeft - 1]_vars
    /\ [](SsmReturned /\ sawMalformed =>
            /\ queried = paths
            /\ AllOffersMerged
            /\ Len(conflicts) = Len(attempted))

\* a page held a malformed entry first and then a well-formed one, which
\* was merged; a later path was merged as well
C7_Witness ==
    /\ pc = "ssm_param"
    /\ idx = 2
    /\ sawMalformed
    /\ lastKind = "wellformed"
    /\ nparams = 3
    /\ \E v \in {1, 2} : defs = {<<1, "k1", 1>>, <<2, "k2", v>>}
    /\ DOMAIN values = {"k1", "k2"}

\* C8: an error of the query of a path never ends the merge: the call
\* returns without raising, every path after the failing one is queried,
\* and what the later paths offer is merged and recorded as usual.
C8_PathErrorNotFatal ==
    /\ pc # "ssm_raised"
    /\ SsmReturned =>
          /\ queried = paths
          /\ \A d \in defs :
                (\E f \in failed : f < d[1]) =>
                    /\ d[2] \in DOMAIN values
                    /\ values[d[2]] \in LastVals(d[2])
          /\ Len(conflicts) = Len(attempted)
          /\ \A n \in 1..Len(attempted) : conflicts[n] = AttemptRecord(n)

\* the query of path 1 raised at once, path 2 was queried and merged
C8_Witness ==
    /\ SsmReturned
    /\ failed = {1}
    /\ Len(queried) = 2
    /\ \E d \in defs : d[1] = 2 /\ values[d[2]] = d[3]

\* the query of the path before index idx has raised
PathJustFailed == pc \in {"ssm_path", "ssm_done"} /\ (idx - 1) \in failed

\* C11: when the query of a path raises, the merged map and the conflict
\* list after the path are what they were before it, also when the error
\* comes after pages of the path have been returned and processed.
C11_FailedPathLeavesNoData ==
    PathJustFailed =>
        /\ values = valuesBefore
        /\ conflicts = conflictsBefore


(***************************************************************************)
(* Properties of get_vars and of the metadata lookups.                     *)
(***************************************************************************)
InGetVars == caller = "get_vars"

GetVarsReturned == InGetVars /\ pc = "gv_done"

SkipSet == "skip_aws_vars" \in DOMAIN hostvars /\ hostvars["skip_aws_vars"]

\* C5: for a host whose variables hold skip_aws_vars = true, get_vars
\* returns the empty mapping and sends no request: none for a metadata token
\* or for tags, none to the parameter store.
C5_SkipMakesNoCalls ==
    (InGetVars /\ host.isHost /\ SkipSet) =>
        /\ pc \in {"gv_entry", "gv_done"}
        /\ remote = {}
        /\ queried = <<>>
        /\ pc = "gv_done" => ret = EmptyDict

\* get_vars has returned for the local host without its tags, skip flag set
C5_Witness ==
    /\ GetVarsReturned
    /\ host.isHost
    /\ SkipSet
    /\ host.name = "localhost"
    /\ DOMAIN hostvars \cap TagKeys = {}

\* C6: for a host with Role, Environment and Cluster whose skip_aws_vars is
\* absent or false, get_vars queries the parameter store, and what the store
\* offers for names that host vars do not hold is in the returned mapping.
C6_ProceedsWithoutSkip ==
    (GetVarsReturned /\ host.isHost /\ ~SkipSet /\ TagKeys \subseteq DOMAIN hostvars)
        => /\ queried # <<>>
           /\ \A k \in OfferedNames : k \in DOMAIN ret /\ ret[k] \in LastVals(k)

InstanceTagsReturned == pc = "it_return"

NoTagsAtAll == instance_tags.none \/ instance_tags.d = EmptyDict

\* C10 as claimed: after a failure of the listing or of any request for a
\* tag value, an error status included, _get_instance_tags yields no tags.
C10_AnyFailureIsTotal ==
    (InstanceTagsReturned
       /\ metaFailure \cap {"list_status", "list_transport", "tag_status",
                            "tag_transport"} # {})
        => NoTagsAtAll

\* C10 as amended: after an error status of the listing, or a transport
\* error of the listing or of a request for a tag value, _get_instance_tags
\* returns None; a request for a tag value answered with an error status
\* leaves only that tag out, the tags answered with 200 are returned.
C10_HardFailureIsTotal ==
    InstanceTagsReturned =>
        /\ (metaFailure \cap {"list_status", "list_transport", "tag_transport"} # {})
              => instance_tags.none
        /\ (metaFailure \subseteq {"tag_status"})
              => /\ ~instance_tags.none
                 /\ DOMAIN instance_tags.d =
                       {tagKeys[n] : n \in 1..Len(tagKeys)} \ tagNotOk

\* a request for a tag value raised after another tag had been fetched
C10_Witness ==
    /\ InstanceTagsReturned
    /\ "tag_transport" \in metaFailure
    /\ tk = 2
    /\ tagNotOk = {}
    /\ instance_tags.none

HostTagsReturned == pc = "ht_return"

\* the tags held by host vars
HeldTags == TagKeys \cap DOMAIN hostvars

\* what _get_instance_tags has returned, None read as no tags
InstanceTagsOrNone == IF instance_tags.none THEN EmptyDict ELSE instance_tags.d

\* C12: _get_host_tags sends metadata requests only for a host that lacks
\* one of Role, Environment, Cluster in its variables and is named localhost
\* or 127.0.0.1; a tag held by host vars is returned with its host-var value,
\* the metadata tags fill the missing tags only, and a tag neither source
\* holds is absent from the result, which is returned without an error.
C12_MetadataFillsMissingOnly ==
    /\ []((InGetVars /\ remote # {}) =>
            /\ HeldTags # TagKeys
            /\ host.name \in {"localhost", "127.0.0.1"})
    /\ [](HostTagsReturned =>
            /\ HeldTags \subseteq DOMAIN tags
            /\ DOMAIN tags \subseteq TagKeys
            /\ \A k \in HeldTags : tags[k] = hostvars[k]
            /\ (remote = {} => DOMAIN tags = HeldTags))
    /\ [][(InstanceTagsReturned /\ pc' # pc) =>
            /\ pc' = "ht_return"
            /\ DOMAIN tags' =
                  HeldTags \cup (TagKeys \cap DOMAIN InstanceTagsOrNone)
            /\ \A k \in DOMAIN tags' \ HeldTags :
                  tags'[k] = InstanceTagsOrNone[k]]_vars

\* localhost holds Role only; metadata gave Cluster and gave no Environment
C12_Witness ==
    /\ HostTagsReturned
    /\ host.name = "localhost"
    /\ HeldTags = {"Role"}
    /\ remote = {"token", "tags"}
    /\ DOMAIN tags = {"Role", "Cluster"}
    /\ tags["Role"] = hostvars["Role"]
    /\ tags["Cluster"] = InstanceTagValue("Cluster")
    /\ missing_tags = <<"Environment">>

TokenRequestFailed == metaFailure \cap {"token_status", "token_transport"} # {}

\* C13: on one plugin, a token request is sent only when no token is
\* cached: once a fetch has succeeded the token never changes again and no
\* further token request is sent; a failed fetch leaves no token cached, and
\* a lookup that finds no token cached sends a token request.
C13_TokenFetchedOnlyWhenAbsent ==
    /\ [][token # "None" =>
            /\ token' = token
            /\ tokenRequests' = tokenRequests]_vars
    /\ [][tokenRequests' # tokenRequests =>
            /\ token = "None"
            /\ pc = "it_token"
            /\ tokenRequests' = tokenRequests + 1]_vars
    /\ [](TokenRequestFailed => token = "None")
    /\ [][(pc = "it_token" /\ token = "None" /\ pc' # pc) =>
            tokenRequests' = tokenRequests + 1]_vars

\* a first fetch failed, a second one succeeded, and a later lookup goes on
\* with the cached token without a request
C13_Witness ==
    /\ pc = "it_list"
    /\ token \in TokenTexts
    /\ tokenRequests = 2
    /\ "token" \notin remote

====
